---- MODULE Spec2Model ----
(***************************************************************************)
(* Execution queueing and correlation subsystem of runna-backend.          *)
(*                                                                         *)
(* Processes: the gateway (one execute_function request per job, all on    *)
(* one asyncio event loop together with the callback listener), the Redis  *)
(* stream "exec_stream" with its consumer group, the pub/sub channel       *)
(* "callback_channel", the jobs table, and the worker processes.           *)
(* One action is one slice of code between two suspension points (an await *)
(* on network or thread I/O), or one server-side Redis or database         *)
(* operation.  asyncio.wait_for is modelled by its documented behaviour:   *)
(* it returns the future's result if the future completes before the       *)
(* deadline, and otherwise cancels the future and raises TimeoutError.     *)
(***************************************************************************)
EXTENDS Naturals, Integers, Sequences, FiniteSets, TLC

\* ---------------------------------------------------------------- bounds
\* Number of execute_function requests (one job each).
MaxJobs == 2
\* Number of worker processes in the consumer group.
NumWorkers == 2
\* Number of transport, database and process failures in one behaviour.
MaxFaults == 1
\* Number of request handlers that construct an ExecutionClient concurrently.
MaxHandlers == 3
\* Number of handles the request handlers register in one behaviour.
MaxRequests == 3
\* Number of ExecutionClient objects the process could allocate.
MaxObjects == 2
\* Number of functions that are deployed.
MaxFunctions == 2
\* Number of deploy requests in one behaviour.
MaxDeploys == 3
\* Number of distinct job ids, function ids of each type, and payloads of the
\* invocation messages that are encoded and decoded.
MaxMsgIds == 3
MaxPayloads == 4

Jobs == 1..MaxJobs
Workers == 1..NumWorkers
NoWorker == 0
\* The job_id field of a log entry that int() cannot parse.
BadJobId == 0

VARIABLES
  nextJob,      \* next job id the jobs table assigns (Job.id)
  kind,         \* kind[j]: execution_type of the function request j invokes
  gpc,          \* gpc[j]: position of the execute_function request of job j
  row,          \* row[j]: the jobs table row, [status, result]
  waiters,      \* ExecutionClient.waiters: job id -> future
  ret,          \* ret[j]: the job execute_function returned to its caller
  notFound,     \* number of requests execute_function ended with "Function not found"
  stream,       \* exec_stream: the messages (job ids) in append order
  delivered,    \* consumer group cursor: number of entries delivered so far
  owner,        \* owner[m]: the consumer entry m was delivered to
  pel,          \* pending entries list: delivered and not acknowledged
  acks,         \* acks[m]: outcomes of the xack calls issued for entry m, in order
  processed,    \* entries for which _process_message was entered and left
  lateClaim,    \* jobs whose entry was delivered after their wait_for had timed out
  pubReg,       \* jobs whose callback was published while their waiter was registered
  lpc,          \* position of start_callback_listener
  inbox,        \* callbacks received by the subscription, not yet read
  ignored,      \* job ids of callbacks the listener read without resolving a handle
  lretries,     \* number of times the listener went back to connect after an error
  wpc,          \* wpc[w]: position of worker w
  batch,        \* batch[w]: messages of the current xreadgroup reply still to process
  wres,         \* wres[w]: ExecutionStatus of the execution of the current message
  wlog,         \* wlog[w]: the steps _process_message has made on the current message
  published,    \* published[j]: number of callbacks published for job j
  faults,       \* number of failures injected so far
  cls_instance,    \* ExecutionClient._instance (0 is None)
  cls_initialized, \* ExecutionClient._initialized
  heap,            \* heap[o]: the ExecutionClient object o, [state, waiters]
  spc,             \* position of the lifespan of the application
  lref,            \* the object whose start_callback_listener the lifespan started
  hpc,             \* hpc[h]: position of request handler h
  href,            \* href[h]: the object request handler h obtained
  hkey,            \* hkey[h]: the job id handler h has registered (0: none)
  nextKey,         \* next job id a handler registers
  fn_row,          \* fn_row[f]: the committed deployment fields of function f
  dpc,             \* dpc[f]: position of the deploy_function request for f
  dk8s,            \* dk8s[f]: how the call of deploy_function_to_k8s ended
  dres,            \* dres[f]: the response deploy_function returned
  dcount,          \* number of deploy requests so far
  dfaults,         \* number of commits that failed so far
  mpc,             \* position of one invocation message on its way to the executor
  min,             \* the job id, function id and payload the gateway was given
  mval             \* the message as it is at that position

gatewayVars == <<nextJob, kind, gpc, row, waiters, ret, notFound>>
transportVars == <<stream, delivered, owner, pel, acks, processed, lateClaim>>
listenerVars == <<lpc, inbox, ignored, lretries>>
workerVars == <<wpc, batch, wres, wlog, published, pubReg>>
coreVars == <<gatewayVars, transportVars, listenerVars, workerVars, faults>>
singletonVars == <<cls_instance, cls_initialized, heap, spc, lref, hpc, href, hkey, nextKey>>
deployVars == <<fn_row, dpc, dk8s, dres, dcount, dfaults>>
messageVars == <<mpc, min, mval>>
auxVars == <<singletonVars, deployVars, messageVars>>
vars == <<nextJob, kind, gpc, row, waiters, ret, notFound, lretries, stream, delivered, owner, pel,
          acks, processed, lateClaim, pubReg, lpc, inbox, ignored, wpc, batch, wres,
          wlog, published, faults, auxVars>>

\* ------------------------------------------------------------ data model
\* JobStatus; "NONE" stands for "no row yet".
PENDING == "PENDING"
RUNNING == "RUNNING"
SUCCESS == "SUCCESS"
FAILED  == "FAILED"

\* ExecutionStatus
ExecSuccess == "success"
ExecFailed  == "failed"

NoRow == [status |-> "NONE", result |-> "null"]
\* Faulty variant: the job is not added to the table before it is used.
NewRow_NotPersisted == [status |-> "NONE", result |-> "null"]

\* The row of a job that execute_function has just created (lines 45-52).
NewRow == [status |-> PENDING, result |-> "null"]

\* A future of the waiters map: absent (no key), pending, done, cancelled.
\* job_id records the job_id of the callback that resolved it.
NoWaiter == [st |-> "absent", job_id |-> 0, status |-> "none", result |-> "null"]
PendingWaiter == [st |-> "pending", job_id |-> 0, status |-> "none", result |-> "null"]

NoRet == [outcome |-> "none", status |-> "NONE", result |-> "null", from |-> 0]

\* A failure may be injected while the budget lasts.
FaultAllowed(isFault) == isFault => faults < MaxFaults
FaultCount(isFault) == IF isFault THEN faults + 1 ELSE faults

\* JobService.update_job_status: no row, no change; the result is only
\* overwritten by a truthy value.
update_job_status(rows, id, status, result) ==
  IF rows[id].status = "NONE" THEN rows
  ELSE [rows EXCEPT ![id] = [status |-> status,
                             result |-> IF result = "null" THEN @.result ELSE result]]

\* The commit of job.status and job.result set on the gateway's ORM object.
GatewayCommit(rows, id, status, result) ==
  [rows EXCEPT ![id] = [status |-> status, result |-> result]]

\* Faulty variant: the future is not in the map when the message is written.
RegisterWaiter_Deferred(ws, j) == ws

\* self.waiters[job.id] = waiter
RegisterWaiter(ws, j) == [ws EXCEPT ![j] = PendingWaiter]

\* Faulty variant: the finally clause leaves the entry in the map.
PopWaiter_Leaky(ws, j) == ws

\* self.waiters.pop(job.id, None)
PopWaiter(ws, j) == [ws EXCEPT ![j] = NoWaiter]

\* Faulty variant: the status of the result dict is not examined.
SyncJobStatus_AlwaysSuccess(status) == SUCCESS

\* _execute_sync: the result dict of invoke_sync -> job.status, job.result.
SyncJobStatus(status) == IF status = ExecSuccess THEN SUCCESS ELSE FAILED

SyncJobResult(status, result) ==
  IF status = ExecSuccess THEN
    (IF result = "out_json" THEN "out_json_json" ELSE "null_json")
  ELSE IF result = "null" THEN "Unknown error" ELSE result

\* ------------------------------------------- the ExecutionClient singleton
\* The application process: the lifespan constructs the client and starts
\* the listener on it, then request handlers (get_execution_client and the
\* ExecutionService constructor, which FastAPI may run on pool threads)
\* construct it again, register a handle and pop it.
Handlers == 1..MaxHandlers
Objects == 1..MaxObjects
None == 0

FreeObject == [state |-> "free", waiters |-> {}]

\* object.__new__: the next object of the heap that is not in use.
AllocObject(h) == CHOOSE o \in Objects : h[o].state = "free" /\ \A p \in Objects : h[p].state = "free" => o <= p

\* ExecutionClient.__new__, lines 13-16: the object the call returns.
NewInstance(inst, h) == IF inst = None THEN AllocObject(h) ELSE inst

\* The heap after __new__: a fresh object has no attributes yet.
HeapAfterNew(o, h) == IF h[o].state = "free" THEN [h EXCEPT ![o] = [state |-> "raw", waiters |-> {}]] ELSE h

\* Faulty variant: __init__ has no guard and runs on every construction.
InitGuard_Absent(initialized) == FALSE

\* ExecutionClient.__init__, lines 20-21: the early return.
InitGuard(initialized) == initialized

\* ExecutionClient.__init__, lines 18-29: the heap after the call on object o.
HeapAfterInit(o, initialized, h) ==
  IF InitGuard(initialized) THEN h
  ELSE [h EXCEPT ![o] = [state |-> "ready", waiters |-> {}]]

SingletonInit ==
  /\ cls_instance = None
  /\ cls_initialized = FALSE
  /\ heap = [o \in Objects |-> FreeObject]
  /\ spc = "startup"
  /\ lref = None
  /\ hpc = [h \in Handlers |-> "idle"]
  /\ href = [h \in Handlers |-> None]
  /\ hkey = [h \in Handlers |-> 0]
  /\ nextKey = 1

\* lifespan, lines 15-16: ExecutionClient() and the listener task on it, before
\* the application serves any request.
LifespanStartup ==
  /\ spc = "startup"
  /\ LET o == NewInstance(cls_instance, heap) IN
       /\ cls_instance' = o
       /\ heap' = HeapAfterInit(o, cls_initialized, HeapAfterNew(o, heap))
       /\ lref' = o
  /\ cls_initialized' = TRUE
  /\ spc' = "serving"
  /\ UNCHANGED <<hpc, href, hkey, nextKey, deployVars, messageVars, coreVars>>

\* A request handler calls ExecutionClient(): first __new__ ...
HandlerNew(h) ==
  /\ spc = "serving"
  /\ hpc[h] = "idle"
  /\ \E o \in Objects : heap[o].state = "free"
  /\ LET o == NewInstance(cls_instance, heap) IN
       /\ cls_instance' = o
       /\ heap' = HeapAfterNew(o, heap)
       /\ href' = [href EXCEPT ![h] = o]
  /\ hpc' = [hpc EXCEPT ![h] = "new"]
  /\ UNCHANGED <<cls_initialized, spc, lref, hkey, nextKey, deployVars, messageVars, coreVars>>

\* ... then __init__ on the object __new__ returned.
HandlerInit(h) ==
  /\ hpc[h] = "new"
  /\ heap' = HeapAfterInit(href[h], cls_initialized, heap)
  /\ cls_initialized' = TRUE
  /\ hpc' = [hpc EXCEPT ![h] = "constructed"]
  /\ UNCHANGED <<cls_instance, spc, lref, href, hkey, nextKey, deployVars, messageVars, coreVars>>

\* invoke_sync, line 45: self.waiters[job.id] = waiter on the handler's object.
HandlerRegister(h) ==
  /\ hpc[h] = "constructed"
  /\ nextKey <= MaxRequests
  /\ heap' = [heap EXCEPT ![href[h]].waiters = @ \cup {nextKey}]
  /\ hkey' = [hkey EXCEPT ![h] = nextKey]
  /\ nextKey' = nextKey + 1
  /\ hpc' = [hpc EXCEPT ![h] = "registered"]
  /\ UNCHANGED <<cls_instance, cls_initialized, spc, lref, href, deployVars, messageVars, coreVars>>

\* invoke_sync, lines 66-70: self.waiters.pop(job.id, None); the request ends.
HandlerPop(h) ==
  /\ hpc[h] = "registered"
  /\ heap' = [heap EXCEPT ![href[h]].waiters = @ \ {hkey[h]}]
  /\ hkey' = [hkey EXCEPT ![h] = 0]
  /\ href' = [href EXCEPT ![h] = None]
  /\ hpc' = [hpc EXCEPT ![h] = "idle"]
  /\ UNCHANGED <<cls_instance, cls_initialized, spc, lref, nextKey, deployVars, messageVars, coreVars>>

\* A request that registers no handle (an asynchronous invocation) ends.
HandlerReturn(h) ==
  /\ hpc[h] = "constructed"
  /\ href' = [href EXCEPT ![h] = None]
  /\ hpc' = [hpc EXCEPT ![h] = "idle"]
  /\ UNCHANGED <<cls_instance, cls_initialized, heap, spc, lref, hkey, nextKey, deployVars, messageVars, coreVars>>

SingletonNext ==
  \/ LifespanStartup
  \/ \E h \in Handlers : HandlerNew(h)
  \/ \E h \in Handlers : HandlerInit(h)
  \/ \E h \in Handlers : HandlerRegister(h)
  \/ \E h \in Handlers : HandlerPop(h)
  \/ \E h \in Handlers : HandlerReturn(h)

\* ------------------------------------------------------- deploy_function
DeployFunctions == 1..MaxFunctions

\* DeploymentStatus, the values of the deployment_status column.
NOT_DEPLOYED == "NOT_DEPLOYED"
DEPLOYING == "DEPLOYING"
DEPLOYED == "DEPLOYED"
DEPLOY_FAILED == "FAILED"

NotDeployedRow == [status |-> NOT_DEPLOYED, error |-> "null", url |-> "null"]

\* The keyword arguments deploy_function passes (functions.py, lines 392-397).
DeployCallKwargs == {"function_id", "custom_path", "env_vars"}

\* The parameters FunctionService.deploy_function_to_k8s declares.
DeployToK8sParams == {"function_id", "env_vars"}

\* A Python call with keyword arguments: TypeError unless every keyword is
\* a parameter of the callee; otherwise the callee runs and ends as the
\* cluster lets it end.
K8sCallResult(kwargs, params, cluster) ==
  IF kwargs \subseteq params THEN cluster ELSE "TypeError"

\* deploy_function, line 419: the status the failure handler sets.
FailureStatus == DEPLOY_FAILED

\* deploy_function, lines 399-406 and 415-422: the fields the request commits
\* after the call, given how the call ended and whether the commit of the
\* success branch went through.
RowAfterCall(result, commitOk) ==
  IF result = "ok" /\ commitOk
  THEN [status |-> DEPLOYED, error |-> "null", url |-> "ingress_url"]
  ELSE [status |-> FailureStatus, error |-> "str(e)", url |-> "null"]

DeployInit ==
  /\ fn_row = [f \in DeployFunctions |-> NotDeployedRow]
  /\ dpc = [f \in DeployFunctions |-> "idle"]
  /\ dk8s = [f \in DeployFunctions |-> "none"]
  /\ dres = [f \in DeployFunctions |-> "none"]
  /\ dcount = 0
  /\ dfaults = 0

\* deploy_function, lines 316-364: a request that one of the checks rejects.
DeployRejected(f, code) ==
  /\ dpc[f] = "idle"
  /\ dcount < MaxDeploys
  /\ dcount' = dcount + 1
  /\ dres' = [dres EXCEPT ![f] = code]
  /\ dpc' = [dpc EXCEPT ![f] = "returned"]
  /\ UNCHANGED <<fn_row, dk8s, dfaults, singletonVars, messageVars, coreVars>>

\* deploy_function, lines 370-376: DEPLOYING is committed; a commit that raises
\* is caught by the outer handler of lines 430-433.
DeployMarkDeploying(f, commitOk) ==
  /\ dpc[f] = "idle"
  /\ dcount < MaxDeploys
  /\ commitOk \/ dfaults < MaxFaults
  /\ dfaults' = IF commitOk THEN dfaults ELSE dfaults + 1
  /\ dcount' = dcount + 1
  /\ IF commitOk
     THEN /\ fn_row' = [fn_row EXCEPT ![f].status = DEPLOYING, ![f].error = "null"]
          /\ dpc' = [dpc EXCEPT ![f] = "deploying"]
          /\ dres' = [dres EXCEPT ![f] = "none"]
     ELSE /\ fn_row' = fn_row
          /\ dpc' = [dpc EXCEPT ![f] = "returned"]
          /\ dres' = [dres EXCEPT ![f] = "DEPLOYMENT_FAILED"]
  /\ dk8s' = [dk8s EXCEPT ![f] = "none"]
  /\ UNCHANGED <<singletonVars, messageVars, coreVars>>

\* deploy_function, lines 390-397: the call on the pool thread ends.
DeployCall(f, cluster) ==
  /\ dpc[f] = "deploying"
  /\ dk8s' = [dk8s EXCEPT ![f] = K8sCallResult(DeployCallKwargs, DeployToK8sParams, cluster)]
  /\ dpc' = [dpc EXCEPT ![f] = "called"]
  /\ UNCHANGED <<fn_row, dres, dcount, dfaults, singletonVars, messageVars, coreVars>>

\* deploy_function, lines 399-433: the success branch and its commit, the
\* failure handler (rollback, FAILED, commit) that also catches a failed
\* commit of the success branch, and the outer handler that catches a
\* failure of the failure handler and returns with nothing committed.
DeployFinish(f, commitOk, handlerOk) ==
  /\ dpc[f] = "called"
  /\ dk8s[f] # "ok" => commitOk
  /\ (dk8s[f] = "ok" /\ commitOk) => handlerOk
  /\ (commitOk /\ handlerOk) \/ dfaults < MaxFaults
  /\ dfaults' = IF commitOk /\ handlerOk THEN dfaults ELSE dfaults + 1
  /\ fn_row' = IF (dk8s[f] = "ok" /\ commitOk) \/ handlerOk
               THEN [fn_row EXCEPT ![f] = RowAfterCall(dk8s[f], commitOk)]
               ELSE fn_row
  /\ dres' = [dres EXCEPT ![f] = IF dk8s[f] = "ok" /\ commitOk THEN "SUCCESS"
                                 ELSE "DEPLOYMENT_FAILED"]
  /\ dpc' = [dpc EXCEPT ![f] = "returned"]
  /\ UNCHANGED <<dk8s, dcount, singletonVars, messageVars, coreVars>>

\* The next deploy request for the same function.
DeployAgain(f) ==
  /\ dpc[f] = "returned"
  /\ dcount < MaxDeploys
  /\ dpc' = [dpc EXCEPT ![f] = "idle"]
  /\ UNCHANGED <<fn_row, dk8s, dres, dcount, dfaults, singletonVars, messageVars, coreVars>>

DeployNext ==
  \/ \E f \in DeployFunctions, code \in {"ACCESS_DENIED", "VALIDATION_ERROR"} : DeployRejected(f, code)
  \/ \E f \in DeployFunctions, ok \in BOOLEAN : DeployMarkDeploying(f, ok)
  \/ \E f \in DeployFunctions, cluster \in {"ok", "K8sServiceError"} : DeployCall(f, cluster)
  \/ \E f \in DeployFunctions, c \in BOOLEAN, h \in BOOLEAN : DeployFinish(f, c, h)
  \/ \E f \in DeployFunctions : DeployAgain(f)

\* ------------------------------------------------- the invocation message
\* Python values: an int, a uuid.UUID, a dict (the JSON object of the request
\* body), and strings, told apart by what they spell: the decimal literal of
\* an int, the hexadecimal form of a UUID, the JSON text of a dict.
PyInt(n) == [t |-> "int", of |-> "-", v |-> n]
PyUUID(n) == [t |-> "uuid", of |-> "-", v |-> n]
PyDict(k) == [t |-> "dict", of |-> "-", v |-> k]
PyStr(of, v) == [t |-> "str", of |-> of, v |-> v]
PyError == [t |-> "error", of |-> "-", v |-> 0]

\* Job.id is an Integer column.
JobIdValues == {PyInt(n) : n \in 1..MaxMsgIds}

\* Function.id and Job.function_id are UUID columns, and the route takes a
\* UUID; execute_function and Execution.function_id are annotated int.
FunctionIdValues == {PyUUID(n) : n \in 1..MaxMsgIds} \cup {PyInt(n) : n \in 1..MaxMsgIds}

\* The request body, Dict[str, Any].
PayloadValues == {PyDict(k) : k \in 1..MaxPayloads}

\* Execution(job_id: int, function_id: int, payload: Optional[Dict]): pydantic
\* validates the fields; a UUID is not a valid int.
Execution_valid(job_id, function_id, payload) ==
  /\ job_id.t = "int"
  /\ function_id.t = "int"
  /\ payload.t = "dict"

\* str(value) as AsyncRedisService.xadd applies it to a field that is not a
\* dict or list (line 114).
py_str(x) ==
  CASE x.t = "int" -> PyStr("int", x.v)
    [] x.t = "uuid" -> PyStr("uuid", x.v)
    [] OTHER -> x

\* AsyncRedisService.xadd, lines 109-114: dicts are dumped as JSON, everything
\* else goes through str().
xadd_serialize(x) == IF x.t = "dict" THEN PyStr("json", x.v) ELSE py_str(x)

\* AsyncRedisService.xreadgroup, lines 173-177: json.loads of every field; a
\* field that is not JSON text stays the string it was.
xreadgroup_deserialize(x) ==
  CASE x.t = "str" /\ x.of = "int" -> PyInt(x.v)
    [] x.t = "str" /\ x.of = "json" -> PyDict(x.v)
    [] OTHER -> x

\* int(value) as _process_message applies it (lines 90-91): an int, or the
\* decimal literal of one; anything else raises.
py_int(x) ==
  CASE x.t = "int" -> x
    [] x.t = "str" /\ x.of = "int" -> PyInt(x.v)
    [] OTHER -> PyError

Message(j, f, p) == [job_id |-> j, function_id |-> f, payload |-> p]
NoMessage == Message(PyError, PyError, PyError)

MessageInit ==
  /\ mpc = "idle"
  /\ min = NoMessage
  /\ mval = NoMessage

\* insert_exec_queue, lines 84-88: the Execution is built from the job and
\* the payload; a ValidationError leaves insert_exec_queue before anything is
\* written.
MessageBuild(j, f, p) ==
  /\ mpc = "idle"
  /\ min' = Message(j, f, p)
  /\ IF Execution_valid(j, f, p)
     THEN mpc' = "built" /\ mval' = Message(j, f, p)
     ELSE mpc' = "rejected" /\ mval' = NoMessage
  /\ UNCHANGED <<singletonVars, deployVars, coreVars>>

\* insert_exec_queue, lines 99-106, and AsyncRedisService.xadd.
MessageXadd ==
  /\ mpc = "built"
  /\ mval' = Message(xadd_serialize(mval.job_id), xadd_serialize(mval.function_id),
                     xadd_serialize(mval.payload))
  /\ mpc' = "written"
  /\ UNCHANGED <<min, singletonVars, deployVars, coreVars>>

\* AsyncRedisService.xreadgroup: the fields of the entry as the worker gets them.
MessageRead ==
  /\ mpc = "written"
  /\ mval' = Message(xreadgroup_deserialize(mval.job_id),
                     xreadgroup_deserialize(mval.function_id),
                     xreadgroup_deserialize(mval.payload))
  /\ mpc' = "read"
  /\ UNCHANGED <<min, singletonVars, deployVars, coreVars>>

\* _process_message, lines 90-100: the values handed to the executor; a field
\* that int() rejects takes the handler of line 127 instead.
MessageParse ==
  /\ mpc = "read"
  /\ LET j == py_int(mval.job_id)
         f == py_int(mval.function_id) IN
       IF j = PyError \/ f = PyError
       THEN mpc' = "failed" /\ mval' = NoMessage
       ELSE mpc' = "executor" /\ mval' = Message(j, f, mval.payload)
  /\ UNCHANGED <<min, singletonVars, deployVars, coreVars>>

\* The next invocation.
MessageDone ==
  /\ mpc \in {"rejected", "failed", "executor"}
  /\ mpc' = "idle"
  /\ min' = NoMessage
  /\ mval' = NoMessage
  /\ UNCHANGED <<singletonVars, deployVars, coreVars>>

MessageNext ==
  \/ \E j \in JobIdValues, f \in FunctionIdValues, p \in PayloadValues : MessageBuild(j, f, p)
  \/ MessageXadd
  \/ MessageRead
  \/ MessageParse
  \/ MessageDone

Init ==
  /\ nextJob = 1
  /\ kind = [j \in Jobs |-> "none"]
  /\ gpc = [j \in Jobs |-> "idle"]
  /\ row = [j \in Jobs |-> NoRow]
  /\ waiters = [j \in Jobs |-> NoWaiter]
  /\ ret = [j \in Jobs |-> NoRet]
  /\ notFound = 0
  /\ stream = <<>>
  /\ delivered = 0
  /\ owner = [j \in Jobs |-> NoWorker]
  /\ pel = {}
  /\ acks = [m \in Jobs \cup {BadJobId} |-> <<>>]
  /\ processed = {}
  /\ lateClaim = {}
  /\ pubReg = {}
  /\ lpc = "connecting"
  /\ inbox = <<>>
  /\ ignored = {}
  /\ lretries = 0
  /\ wpc = [w \in Workers |-> "read"]
  /\ batch = [w \in Workers |-> <<>>]
  /\ wres = [w \in Workers |-> "none"]
  /\ wlog = [w \in Workers |-> <<>>]
  /\ published = [j \in Jobs |-> 0]
  /\ faults = 0
  /\ SingletonInit
  /\ DeployInit
  /\ MessageInit

\* ------------------------------------------------------- gateway actions

\* execute_function: the function exists; the job row is created PENDING and
\* update_job_status(PENDING) is applied. For a SYNC function the same
\* event-loop slice enters invoke_sync and registers the waiter (line 52)
\* before the first await inside insert_exec_queue.
\* Faulty variant: the new job takes the id of the job before it.
NextJobId_Reused(id) == id

\* db.add(job); db.commit(); db.refresh(job), lines 51-55: the table gives
\* every new row the next primary key.
NextJobId(id) == id + 1

ExecuteFunction(k) ==
  /\ nextJob + notFound <= MaxJobs
  /\ row' = update_job_status([row EXCEPT ![nextJob] = NewRow], nextJob, PENDING, "null")
  /\ kind' = [kind EXCEPT ![nextJob] = k]
  /\ waiters' = IF k = "sync" THEN RegisterWaiter(waiters, nextJob) ELSE waiters
  /\ gpc' = [gpc EXCEPT ![nextJob] = IF k = "sync" THEN "registered" ELSE "created"]
  /\ nextJob' = NextJobId(nextJob)
  /\ UNCHANGED <<auxVars, ret, notFound, transportVars, listenerVars, workerVars, faults>>

\* The function ids a request may name; the last one is in no row of the
\* functions table.
FunctionIds == {"fn_sync", "fn_async", "fn_missing"}

\* execute_function, line 41: the execution_type of the function the query
\* returns, "none" when .first() returns None.
query_function(f) ==
  CASE f = "fn_sync" -> "sync"
    [] f = "fn_async" -> "async"
    [] OTHER -> "none"

\* Faulty variant: the job row is added before the function is looked up.
JobRowsAfterLookup_CreatesFirst(rows, id, fn) == [rows EXCEPT ![id] = NewRow]

\* execute_function, lines 41-52: the jobs table after the lookup; a row is
\* added only below the `raise ValueError` of line 43.
JobRowsAfterLookup(rows, id, fn) ==
  IF fn = "none" THEN rows ELSE [rows EXCEPT ![id] = NewRow]

\* execute_function, lines 41-43: the function does not exist and ValueError
\* ("Function not found") is raised to the caller.
ExecuteFunctionNotFound(f) ==
  /\ nextJob + notFound <= MaxJobs
  /\ query_function(f) = "none"
  /\ row' = JobRowsAfterLookup(row, nextJob, query_function(f))
  /\ nextJob' = IF row' = row THEN nextJob ELSE nextJob + 1
  /\ notFound' = notFound + 1
  /\ UNCHANGED <<auxVars, kind, gpc, waiters, ret, transportVars, listenerVars, workerVars, faults>>

\* invoke_sync, line 55: insert_exec_queue. xadd appends ("ok"), reports a
\* ConnectionError by returning None ("none": nothing is written and
\* invoke_sync ignores the return value), or raises another error ("raise":
\* the waiter is popped and _execute_sync marks the job FAILED with str(e)).
InvokeSyncEnqueue(j, outcome) ==
  /\ kind[j] = "sync"
  /\ gpc[j] = "registered"
  /\ FaultAllowed(outcome # "ok")
  /\ faults' = FaultCount(outcome # "ok")
  /\ CASE outcome = "ok" ->
            /\ stream' = Append(stream, j)
            /\ gpc' = [gpc EXCEPT ![j] = "waiting"]
            /\ UNCHANGED <<row, waiters, ret>>
       [] outcome = "none" ->
            /\ gpc' = [gpc EXCEPT ![j] = "waiting"]
            /\ UNCHANGED <<stream, row, waiters, ret>>
       [] outcome = "raise" ->
            /\ waiters' = PopWaiter(waiters, j)
            /\ row' = GatewayCommit(row, j, FAILED, "exc_str")
            /\ ret' = [ret EXCEPT ![j] = [outcome |-> "enqueue_error", status |-> FAILED,
                                          result |-> "exc_str", from |-> 0]]
            /\ gpc' = [gpc EXCEPT ![j] = "returned"]
            /\ UNCHANGED stream
  /\ UNCHANGED <<auxVars, nextJob, notFound, kind, delivered, owner, pel, acks, processed, lateClaim,
                 listenerVars, workerVars>>

\* invoke_sync, lines 59-60 and 66-70, then _execute_sync, lines 90-109: the
\* future is done, wait_for returns its result, the waiter is popped and the
\* job is committed with the status derived from the result dict.
InvokeSyncResult(j) ==
  /\ gpc[j] = "waiting"
  /\ waiters[j].st = "done"
  /\ row' = GatewayCommit(row, j, SyncJobStatus(waiters[j].status),
                          SyncJobResult(waiters[j].status, waiters[j].result))
  /\ ret' = [ret EXCEPT ![j] = [outcome |-> "result",
                                status |-> SyncJobStatus(waiters[j].status),
                                result |-> SyncJobResult(waiters[j].status, waiters[j].result),
                                from |-> waiters[j].job_id]]
  /\ waiters' = PopWaiter(waiters, j)
  /\ gpc' = [gpc EXCEPT ![j] = "returned"]
  /\ UNCHANGED <<auxVars, nextJob, notFound, kind, transportVars, listenerVars, workerVars, faults>>

\* Faulty variant: the deadline also takes effect on a future that is done.
TimeoutMayFire_Always(j) == waiters[j].st # "absent"

\* Faulty variant: the wait has no deadline.
TimeoutMayFire_Never(j) == FALSE

\* asyncio.wait_for(waiter, timeout=30.0): the deadline takes effect only
\* while the future is not done.
TimeoutMayFire(j) == waiters[j].st = "pending"

\* invoke_sync, line 59: the deadline passes; wait_for cancels the future and
\* the task is scheduled to resume with TimeoutError.
WaitForTimeout(j) ==
  /\ gpc[j] = "waiting"
  /\ TimeoutMayFire(j)
  /\ waiters' = [waiters EXCEPT ![j].st = "cancelled"]
  /\ gpc' = [gpc EXCEPT ![j] = "timedout"]
  /\ UNCHANGED <<auxVars, nextJob, notFound, kind, row, ret, transportVars, listenerVars, workerVars, faults>>

\* Faulty variant: the timeout stores its message and leaves the status.
TimeoutJobStatus_Pending == PENDING

\* The job status _execute_sync derives (lines 91-101) from the dict
\* invoke_sync returns for a timeout (line 65).
TimeoutJobStatus == SyncJobStatus(ExecFailed)

\* invoke_sync, lines 61-70, then _execute_sync, lines 96-109: the task
\* resumes with TimeoutError, returns the timeout dict, pops the waiter, and
\* the job is committed from that dict.
InvokeSyncTimeoutReturn(j) ==
  /\ gpc[j] = "timedout"
  /\ waiters' = PopWaiter(waiters, j)
  /\ row' = GatewayCommit(row, j, TimeoutJobStatus, "timeout_msg")
  /\ ret' = [ret EXCEPT ![j] = [outcome |-> "timeout", status |-> TimeoutJobStatus,
                                result |-> "timeout_msg", from |-> 0]]
  /\ gpc' = [gpc EXCEPT ![j] = "returned"]
  /\ UNCHANGED <<auxVars, nextJob, notFound, kind, transportVars, listenerVars, workerVars, faults>>

\* The task of the request is cancelled while invoke_sync is suspended (in
\* insert_exec_queue, line 55, or in wait_for, line 59): CancelledError is
\* raised at the await, the finally clause (lines 66-70) pops the waiter, and
\* `except Exception` of _execute_sync (line 102) does not catch it, so
\* nothing is committed and nothing is returned.
InvokeSyncCancelled(j) ==
  /\ kind[j] = "sync"
  /\ gpc[j] \in {"registered", "waiting", "timedout"}
  /\ FaultAllowed(TRUE)
  /\ faults' = FaultCount(TRUE)
  /\ waiters' = PopWaiter(waiters, j)
  /\ ret' = [ret EXCEPT ![j] = [outcome |-> "cancelled", status |-> "NONE",
                                result |-> "null", from |-> 0]]
  /\ gpc' = [gpc EXCEPT ![j] = "returned"]
  /\ UNCHANGED <<auxVars, nextJob, notFound, kind, row, transportVars, listenerVars, workerVars>>

\* _execute_async, line 137: insert_exec_queue with the same three outcomes
\* of xadd. On "raise" the job is committed FAILED (lines 141-148).
ExecuteAsyncEnqueue(j, outcome) ==
  /\ kind[j] = "async"
  /\ gpc[j] = "created"
  /\ FaultAllowed(outcome # "ok")
  /\ faults' = FaultCount(outcome # "ok")
  /\ CASE outcome = "ok" ->
            /\ stream' = Append(stream, j)
            /\ gpc' = [gpc EXCEPT ![j] = "enqueued"]
            /\ UNCHANGED <<row, ret>>
       [] outcome = "none" ->
            /\ gpc' = [gpc EXCEPT ![j] = "enqueued"]
            /\ UNCHANGED <<stream, row, ret>>
       [] outcome = "raise" ->
            /\ row' = GatewayCommit(row, j, FAILED, "enqueue_err")
            /\ ret' = [ret EXCEPT ![j] = [outcome |-> "enqueue_error", status |-> FAILED,
                                          result |-> "enqueue_err", from |-> 0]]
            /\ gpc' = [gpc EXCEPT ![j] = "returned"]
            /\ UNCHANGED stream
  /\ UNCHANGED <<auxVars, nextJob, notFound, kind, waiters, delivered, owner, pel, acks, processed,
                 lateClaim, listenerVars, workerVars>>

\* _execute_async, lines 146-148: commit (nothing is dirty), refresh from the
\* table, return the job.
ExecuteAsyncReturn(j) ==
  /\ gpc[j] = "enqueued"
  /\ ret' = [ret EXCEPT ![j] = [outcome |-> "accepted", status |-> row[j].status,
                                result |-> row[j].result, from |-> 0]]
  /\ gpc' = [gpc EXCEPT ![j] = "returned"]
  /\ UNCHANGED <<auxVars, nextJob, notFound, kind, row, waiters, transportVars, listenerVars, workerVars,
                 faults>>

\* ------------------------------------------------------ listener actions

\* Faulty variant: an error ends the listener task.
ListenerAfterError_Dies == "dead"

\* start_callback_listener, lines 136-141, 148-151 and 169-185: after a
\* failure the subscription is closed, the loop sleeps 5 s and starts over
\* with get_pubsub.
ListenerAfterError == "connecting"

\* start_callback_listener, lines 134-155: get_pubsub and subscribe_channel;
\* on failure the loop sleeps 5 s and tries again.
ListenerSubscribe(ok) ==
  /\ lpc = "connecting"
  /\ FaultAllowed(~ok)
  /\ faults' = FaultCount(~ok)
  /\ lpc' = IF ok THEN "subscribed" ELSE ListenerAfterError
  /\ lretries' = IF ok THEN lretries ELSE lretries + 1
  /\ inbox' = <<>>
  /\ UNCHANGED <<auxVars, ignored, gatewayVars, transportVars, workerVars>>

\* start_callback_listener, lines 169-185: get_message raises (connection
\* lost); the subscription is closed, what it had buffered is gone, and the
\* loop sleeps 5 s before it connects again.
ListenerConnectionLost ==
  /\ lpc = "subscribed"
  /\ FaultAllowed(TRUE)
  /\ faults' = FaultCount(TRUE)
  /\ lpc' = ListenerAfterError
  /\ lretries' = lretries + 1
  /\ inbox' = <<>>
  /\ UNCHANGED <<auxVars, ignored, gatewayVars, transportVars, workerVars>>

\* Faulty variant: the callback is given to whichever future is pending.
CallbackWaiterKey_AnyPending(n, ws) ==
  IF \E j \in Jobs : ws[j].st = "pending"
  THEN CHOOSE j \in Jobs : ws[j].st = "pending"
  ELSE n.job_id

\* The key _process_callback_message looks up in the waiters map (line 200).
CallbackWaiterKey(n, ws) == n.job_id

\* Future.set_result (line 209): it raises InvalidStateError on a future that
\* is done or cancelled.
set_result(f, n) ==
  IF f.st = "pending"
  THEN [st |-> "done", job_id |-> n.job_id, status |-> n.status, result |-> n.result]
  ELSE [f EXCEPT !.st = "invalid_state"]

\* Faulty variant: set_result without the waiter.done() test of line 204.
process_callback_message_NoDoneCheck(n, ws) ==
  IF ws[CallbackWaiterKey(n, ws)].st = "absent" THEN ws
  ELSE [ws EXCEPT ![CallbackWaiterKey(n, ws)] = set_result(@, n)]

\* Faulty variant: the value of the notification is stored whatever the state
\* of the future.
process_callback_message_Replace(n, ws) ==
  IF ws[CallbackWaiterKey(n, ws)].st = "absent" THEN ws
  ELSE [ws EXCEPT ![CallbackWaiterKey(n, ws)] =
          [st |-> "done", job_id |-> n.job_id, status |-> n.status, result |-> n.result]]

\* Faulty variant: a notification without a handle leaves its value in the map.
process_callback_message_StoresAbsent(n, ws) ==
  IF ws[CallbackWaiterKey(n, ws)].st = "pending"
  THEN [ws EXCEPT ![CallbackWaiterKey(n, ws)] = set_result(@, n)]
  ELSE IF ws[CallbackWaiterKey(n, ws)].st = "absent"
  THEN [ws EXCEPT ![CallbackWaiterKey(n, ws)] = set_result(PendingWaiter, n)]
  ELSE ws

\* _process_callback_message, lines 199-213.
process_callback_message(n, ws) ==
  IF ws[CallbackWaiterKey(n, ws)].st = "absent" THEN ws
  ELSE IF ws[CallbackWaiterKey(n, ws)].st # "pending" THEN ws
  ELSE [ws EXCEPT ![CallbackWaiterKey(n, ws)] = set_result(@, n)]

\* A message on the channel that is not the JSON of a Callback.
Malformed == [job_id |-> 0, status |-> "garbage", result |-> "null"]

\* Callback.model_validate_json (line 197) accepts the message.
Decodable(m) == m.job_id \in Jobs /\ m.status \in {ExecSuccess, ExecFailed}

\* Faulty variant: the decoding error leaves _process_callback_message and
\* ends the receive loop (line 171), so that the listener reconnects.
ListenerAfterMessage_Propagates(m) == IF Decodable(m) THEN "subscribed" ELSE "connecting"

\* _process_callback_message, lines 189 and 215-216: whatever the processing
\* of a message raises is caught and printed; the receive loop goes on.
ListenerAfterMessage(m) == "subscribed"

\* start_callback_listener, lines 161-164: one message is read from the
\* subscription, decoded (line 197) and processed.
ListenerReceive ==
  /\ lpc = "subscribed"
  /\ inbox # <<>>
  /\ waiters' = IF Decodable(Head(inbox))
                THEN process_callback_message(Head(inbox), waiters)
                ELSE waiters
  /\ lpc' = ListenerAfterMessage(Head(inbox))
  /\ inbox' = Tail(inbox)
  /\ ignored' = IF waiters' = waiters THEN ignored \cup {Head(inbox).job_id} ELSE ignored
  /\ UNCHANGED <<auxVars, nextJob, notFound, kind, gpc, row, ret, lretries, transportVars,
                 workerVars, faults>>

\* callback_channel is a Redis pub/sub channel on which any client may
\* publish. A message of another publisher reaches the subscription: one that
\* is not a Callback, or a repetition, with either status, of the callback of
\* a job whose callback was published before.
ForeignPublish(m) ==
  /\ lpc = "subscribed"
  /\ Decodable(m) => published[m.job_id] > 0
  /\ FaultAllowed(TRUE)
  /\ faults' = FaultCount(TRUE)
  /\ inbox' = Append(inbox, m)
  /\ UNCHANGED <<auxVars, lpc, ignored, lretries, gatewayVars, transportVars, workerVars>>

\* -------------------------------------------------------- worker actions

\* Faulty variant: the read starts at the first entry (id "0"), so that
\* entries delivered before are returned again.
xreadgroup_Redelivers(n) == SubSeq(stream, 1, n)

\* AsyncRedisService.xreadgroup with id ">": the next n never-delivered
\* entries of the stream.
xreadgroup(n) == SubSeq(stream, delivered + 1, delivered + n)

\* The wait_for of job j has raised TimeoutError (invoke_sync, line 61), or
\* is about to: the deadline has passed.
TimedOut(j) == gpc[j] = "timedout" \/ ret[j].outcome = "timeout"

\* _consume_loop, lines 67-80: a read returns n >= 1 messages (at most
\* `count`, which is a setting); they enter the pending entries list under
\* the name of the reading consumer. Idle workers are interchangeable: the
\* one with the lowest index is taken to be the one Redis serves.
WorkerClaim(w, n) ==
  /\ wpc[w] = "read"
  /\ \A v \in Workers : v < w => wpc[v] # "read"
  /\ n >= 1
  /\ n <= Len(stream) - delivered
  /\ batch' = [batch EXCEPT ![w] = xreadgroup(n)]
  /\ delivered' = delivered + n
  /\ owner' = [m \in Jobs |->
                 IF \E i \in 1..n : stream[delivered + i] = m THEN w ELSE owner[m]]
  /\ pel' = pel \cup {stream[delivered + i] : i \in 1..n}
  /\ lateClaim' = lateClaim \cup
       {stream[delivered + i] : i \in {k \in 1..n : stream[delivered + k] \in Jobs
                                                    /\ TimedOut(stream[delivered + k])}}
  /\ wpc' = [wpc EXCEPT ![w] = "got"]
  /\ UNCHANGED <<auxVars, gatewayVars, stream, acks, processed, listenerVars, wres, wlog,
                 published, pubReg, faults>>

\* Faulty variant: the job is not marked before the executor starts.
RunningMark_Skipped == PENDING

\* The JobStatus _process_message writes before it starts the executor (line 97).
RunningMark == RUNNING

\* Faulty variant: an error that reaches the consume loop ends it.
AfterLoopError_Exits == "stopped"

\* _consume_loop, lines 75-76 and 82-84: after an empty reply, and after an
\* exception (logged, sleep 1 s), the while loop reads again.
AfterLoopError == "read"

\* _consume_loop, lines 67-84: xreadgroup fails; AsyncRedisService.xreadgroup
\* returns [] on ConnectionError (lines 182-183) and any other exception is
\* caught at line 82.
WorkerReadFail(w) ==
  /\ wpc[w] = "read"
  /\ FaultAllowed(TRUE)
  /\ faults' = FaultCount(TRUE)
  /\ wpc' = [wpc EXCEPT ![w] = AfterLoopError]
  /\ UNCHANGED <<auxVars, gatewayVars, transportVars, listenerVars, batch, wres, wlog, published,
                 pubReg>>

\* Faulty variant: a message that cannot be parsed is left unacknowledged.
AfterParseError_Unacked(rest) == IF rest # <<>> THEN "got" ELSE "read"

\* _process_message, lines 88-90 and 127-141: int(fields.get("job_id")) raises,
\* job_id is still None, so the handler neither updates nor publishes, and the
\* finally clause acknowledges the message.
AfterParseError(rest) == "ack"

\* _process_message, lines 88-97: the fields are parsed, then
\* _update_job_status(RUNNING); a failing update is logged and swallowed
\* (lines 163-166).
WorkerMarkRunning(w, ok) ==
  /\ wpc[w] = "got"
  /\ Head(batch[w]) = BadJobId => ok
  /\ FaultAllowed(~ok)
  /\ faults' = FaultCount(~ok)
  /\ IF Head(batch[w]) = BadJobId
     THEN /\ row' = row
          /\ wlog' = [wlog EXCEPT ![w] = Append(@, "parse_fail")]
          /\ wpc' = [wpc EXCEPT ![w] = AfterParseError(Tail(batch[w]))]
     ELSE /\ row' = IF ok THEN update_job_status(row, Head(batch[w]), RunningMark, "null") ELSE row
          /\ wlog' = [wlog EXCEPT ![w] = Append(@, IF ok THEN "running_ok" ELSE "running_fail")]
          /\ wpc' = [wpc EXCEPT ![w] = "exec"]
  /\ UNCHANGED <<auxVars, nextJob, notFound, kind, gpc, waiters, ret, transportVars, listenerVars,
                 batch, wres, published, pubReg>>

\* JobStatus and result the worker stores for an execution outcome
\* (lines 102-120 and 127-132).
WorkerJobStatus(res) == IF res = ExecSuccess THEN SUCCESS ELSE FAILED

WorkerJobResult(res) == IF res = ExecSuccess THEN "out_json" ELSE "err"

\* _process_message, lines 100-120 and 127-132: the executor runs and the
\* terminal status is written; an executor that returns success=False and an
\* executor that raises both end in FAILED with the error as result.
WorkerExecute(w, res, ok) ==
  /\ wpc[w] = "exec"
  /\ FaultAllowed(~ok)
  /\ faults' = FaultCount(~ok)
  /\ row' = IF ok
            THEN update_job_status(row, Head(batch[w]), WorkerJobStatus(res),
                                   WorkerJobResult(res))
            ELSE row
  /\ wres' = [wres EXCEPT ![w] = res]
  /\ wlog' = [wlog EXCEPT ![w] = Append(@, IF ok THEN "term_ok" ELSE "term_fail")]
  /\ wpc' = [wpc EXCEPT ![w] = "publish"]
  /\ UNCHANGED <<auxVars, nextJob, notFound, kind, gpc, waiters, ret, transportVars, listenerVars,
                 batch, published, pubReg>>

\* The Callback the worker builds (lines 173-178).
Callback(job_id, status) ==
  [job_id |-> job_id, status |-> status,
   result |-> IF status = ExecSuccess THEN "out_json" ELSE "err_json"]

\* Redis PUBLISH: the message reaches the subscriptions open at that moment.
publish(n) == IF lpc = "subscribed" THEN Append(inbox, n) ELSE inbox

\* Faulty variant: xack after the publish step instead of in a finally clause.
AckOnlyWhenPublished(ok) == ok

\* _process_message, line 135: xack is in a finally clause, so it runs
\* whichever way the try block is left.
AckInFinally(ok) == TRUE

\* _process_message, lines 109/121/133: _publish_callback. "ok": the callback
\* is published; "fail": the publish fails and is swallowed (lines 182-183,
\* and AsyncRedisService.publish, lines 76-77); "invalid": the worker process
\* runs src/worker.py, whose _publish_callback builds Callback without the
\* required field `error` (lines 167-171), so that the constructor raises
\* ValidationError, which is swallowed (lines 175-176), on every message.
WorkerPublish(w, outcome) ==
  /\ wpc[w] = "publish"
  /\ FaultAllowed(outcome = "fail")
  /\ faults' = FaultCount(outcome = "fail")
  /\ inbox' = IF outcome = "ok" THEN publish(Callback(Head(batch[w]), wres[w])) ELSE inbox
  /\ published' = IF outcome = "ok"
                  THEN [published EXCEPT ![Head(batch[w])] = @ + 1] ELSE published
  /\ pubReg' = IF outcome = "ok" /\ waiters[Head(batch[w])].st = "pending"
               THEN pubReg \cup {Head(batch[w])} ELSE pubReg
  /\ IF AckInFinally(outcome = "ok")
     THEN /\ wpc' = [wpc EXCEPT ![w] = "ack"]
          /\ wlog' = [wlog EXCEPT ![w] = Append(@, "pub_" \o outcome)]
          /\ UNCHANGED <<batch, wres, processed>>
     ELSE /\ wpc' = [wpc EXCEPT ![w] = IF Tail(batch[w]) # <<>> THEN "got" ELSE "read"]
          /\ batch' = [batch EXCEPT ![w] = Tail(@)]
          /\ wres' = [wres EXCEPT ![w] = "none"]
          /\ wlog' = [wlog EXCEPT ![w] = <<>>]
          /\ processed' = processed \cup {Head(batch[w])}
  /\ UNCHANGED <<auxVars, gatewayVars, stream, delivered, owner, pel, acks, lateClaim, lpc, ignored,
                 lretries>>

\* _process_message, lines 135-141: xack. "ok" removes the entry from the
\* pending list; "conn_error" is AsyncRedisService.xack returning 0 on
\* ConnectionError; "raise" is any other error, which leaves _process_message
\* and both for loops and is caught at _consume_loop, line 82.
WorkerAck(w, outcome) ==
  /\ wpc[w] = "ack"
  /\ FaultAllowed(outcome # "ok")
  /\ faults' = FaultCount(outcome # "ok")
  /\ acks' = [acks EXCEPT ![Head(batch[w])] = Append(@, outcome)]
  /\ processed' = processed \cup {Head(batch[w])}
  /\ pel' = IF outcome = "ok" THEN pel \ {Head(batch[w])} ELSE pel
  /\ batch' = [batch EXCEPT ![w] = IF outcome = "raise" THEN <<>> ELSE Tail(@)]
  /\ wpc' = [wpc EXCEPT ![w] =
               IF outcome = "raise" THEN AfterLoopError
               ELSE IF Tail(batch[w]) # <<>> THEN "got" ELSE "read"]
  /\ wres' = [wres EXCEPT ![w] = "none"]
  /\ wlog' = [wlog EXCEPT ![w] = <<>>]
  /\ UNCHANGED <<auxVars, gatewayVars, stream, delivered, owner, lateClaim, listenerVars,
                 published, pubReg>>

\* The worker process dies while it holds claimed messages (no finally
\* clause runs); another worker keeps running.
WorkerCrash(w) ==
  /\ wpc[w] \in {"got", "exec", "publish", "ack"}
  /\ \E v \in Workers \ {w} : wpc[v] # "crashed"
  /\ FaultAllowed(TRUE)
  /\ faults' = FaultCount(TRUE)
  /\ wpc' = [wpc EXCEPT ![w] = "crashed"]
  /\ batch' = [batch EXCEPT ![w] = <<>>]
  /\ wres' = [wres EXCEPT ![w] = "none"]
  /\ wlog' = [wlog EXCEPT ![w] = <<>>]
  /\ UNCHANGED <<auxVars, gatewayVars, transportVars, listenerVars, published, pubReg>>

\* The steps of requests that are under way.
GatewayProgress ==
  \/ \E j \in Jobs, o \in {"ok", "none", "raise"} : InvokeSyncEnqueue(j, o)
  \/ \E j \in Jobs : InvokeSyncResult(j)
  \/ \E j \in Jobs : WaitForTimeout(j)
  \/ \E j \in Jobs : InvokeSyncTimeoutReturn(j)
  \/ \E j \in Jobs : InvokeSyncCancelled(j)
  \/ \E j \in Jobs, o \in {"ok", "none", "raise"} : ExecuteAsyncEnqueue(j, o)
  \/ \E j \in Jobs : ExecuteAsyncReturn(j)

GatewayNext ==
  \/ \E k \in {"sync", "async"} : ExecuteFunction(k)
  \/ \E f \in FunctionIds : ExecuteFunctionNotFound(f)
  \/ GatewayProgress

ListenerNext ==
  \/ \E ok \in BOOLEAN : ListenerSubscribe(ok)
  \/ ListenerConnectionLost
  \/ ListenerReceive

\* What other publishers do on the channel.
ChannelNext ==
  \E m \in {Malformed} \cup {Callback(j, st) : j \in Jobs, st \in {ExecSuccess, ExecFailed}} :
    ForeignPublish(m)

\* One step of the consume loop of worker w.
WorkerStep(w) ==
  \/ \E n \in 1..MaxJobs : WorkerClaim(w, n)
  \/ WorkerReadFail(w)
  \/ \E ok \in BOOLEAN : WorkerMarkRunning(w, ok)
  \/ \E res \in {ExecSuccess, ExecFailed}, ok \in BOOLEAN : WorkerExecute(w, res, ok)
  \/ \E o \in {"ok", "fail", "invalid"} : WorkerPublish(w, o)
  \/ \E o \in {"ok", "conn_error", "raise"} : WorkerAck(w, o)

WorkerNext ==
  \/ \E w \in Workers : WorkerStep(w)
  \/ \E w \in Workers : WorkerCrash(w)

Next ==
  \/ GatewayNext
  \/ ListenerNext
  \/ ChannelNext
  \/ WorkerNext

Spec == Init /\ [][Next]_vars

\* Behaviours with a single request, in which the event loop of the gateway
\* (requests and listener) and every worker process that has not died keep
\* taking the steps they can take.
SingleJobGateway ==
  \/ nextJob + notFound = 1 /\ \E k \in {"sync", "async"} : ExecuteFunction(k)
  \/ nextJob + notFound = 1 /\ \E f \in FunctionIds : ExecuteFunctionNotFound(f)
  \/ GatewayProgress

SingleJobNext ==
  \/ SingleJobGateway
  \/ ListenerNext
  \/ ChannelNext
  \/ WorkerNext

FairSpec ==
  /\ Init
  /\ [][SingleJobNext]_vars
  /\ WF_vars(SingleJobGateway)
  /\ WF_vars(ListenerNext)
  /\ \A w \in Workers : WF_vars(WorkerStep(w))

\* Another client of the Redis server appends an entry whose job_id field is
\* not an integer to exec_stream.
ForeignXadd ==
  /\ ~\E i \in 1..Len(stream) : stream[i] = BadJobId
  /\ stream' = Append(stream, BadJobId)
  /\ UNCHANGED <<auxVars, gatewayVars, delivered, owner, pel, acks, processed, lateClaim,
                 listenerVars, workerVars, faults>>

PoisonNext ==
  \/ SingleJobNext
  \/ ForeignXadd

\* Behaviours with one request and one foreign entry in the log.
PoisonSpec == Init /\ [][PoisonNext]_vars

\* The application process and its ExecutionClient constructions.
SingletonSpec == Init /\ [][SingletonNext]_vars

\* One invocation message after the other, from the gateway to the executor.
MessageSpec == Init /\ [][MessageNext]_vars

\* The deploy requests of the application.
DeploySpec == Init /\ [][DeployNext]_vars

\* ----------------------------------------------------------------- claims

InStream(j) == \E i \in 1..Len(stream) : stream[i] = j

InInbox(j) == \E i \in 1..Len(inbox) : inbox[i].job_id = j

\* C1: for a synchronous invocation, whenever the job's message is in the log
\* and the invoke_sync call for it has not returned, the waiters map holds the
\* job's handle: the handle is registered before the message is visible.
C1_RegisteredBeforeVisible ==
  \A j \in Jobs :
    (kind[j] = "sync" /\ InStream(j) /\ gpc[j] # "returned") => waiters[j].st # "absent"

\* C1 witness: the message of a synchronous job is in the log, a worker has
\* claimed it, and the caller is waiting on its registered handle.
C1_Witness ==
  \E j \in Jobs :
    /\ kind[j] = "sync" /\ InStream(j) /\ gpc[j] = "waiting"
    /\ owner[j] # NoWorker /\ waiters[j].st = "pending"

\* C2 (as claimed): a job whose callback was published while its handle was
\* registered never returns the timeout outcome; invoke_sync returns the
\* callback's status and result.
C2_PublishedImpliesResult ==
  \A j \in Jobs :
    (j \in pubReg /\ gpc[j] = "returned") =>
      (ret[j].outcome = "result" /\ ret[j].from = j)

\* C2 (amended): once the listener has resolved the handle of job j with a
\* callback, the caller is still waiting, the timeout can no longer take
\* effect, and the next step of the call, unless the request is cancelled
\* first, returns exactly the status and the result of that callback.
C2_ResolvedImpliesResult ==
  [][\A j \in Jobs :
       waiters[j].st = "done" =>
         /\ gpc[j] = "waiting"
         /\ gpc'[j] \in {"waiting", "returned"}
         /\ gpc'[j] = "returned" =>
              \/ ret'[j].outcome = "cancelled"
              \/ ret'[j] = [outcome |-> "result",
                            status |-> SyncJobStatus(waiters[j].status),
                            result |-> SyncJobResult(waiters[j].status, waiters[j].result),
                            from |-> waiters[j].job_id]]_vars

\* C2 witness: a callback was published while the handle was registered and
\* the call returned the result that callback carried.
C2_Witness ==
  \E j \in Jobs :
    j \in pubReg /\ ret[j].outcome = "result" /\ ret[j].from = j /\ ret[j].status = SUCCESS

\* C3: a result returned by invoke_sync for job j, and a result held by the
\* handle of job j, comes from a callback whose job_id is j.
C3_NoCrossTalk ==
  \A j \in Jobs :
    /\ waiters[j].st = "done" => waiters[j].job_id = j
    /\ ret[j].outcome = "result" => ret[j].from = j

\* C3 witness: two synchronous invocations, one returned the result of its
\* own callback while the other one had already timed out.
C3_Witness ==
  \E j, k \in Jobs :
    /\ j # k
    /\ ret[j].outcome = "result" /\ ret[j].from = j
    /\ ret[k].outcome = "timeout"
    /\ published[k] > 0

\* C4: between the listener resolving a handle and the timeout abandoning it
\* exactly one takes effect: a handle the timeout cancelled stays cancelled
\* until the call returns the timeout outcome, set_result is never called on
\* a future that is not pending (nothing raises), a call returns the result
\* exactly when its handle was resolved, and a returned call has no entry in
\* the waiters map.
C4_ExactlyOneWins ==
  \A j \in Jobs :
    /\ waiters[j].st # "invalid_state"
    /\ gpc[j] = "timedout" => waiters[j].st = "cancelled"
    /\ waiters[j].st = "cancelled" => gpc[j] = "timedout"
    /\ waiters[j].st = "done" => gpc[j] = "waiting"
    /\ gpc[j] = "returned" => waiters[j].st = "absent"

\* C4 witness: the timeout won, the callback arrived afterwards and was
\* dropped by the listener, and the call returned the timeout outcome.
C4_Witness ==
  \E j \in Jobs :
    /\ ret[j].outcome = "timeout"
    /\ j \in pubReg
    /\ j \in ignored
    /\ waiters[j].st = "absent"

\* One step of the lifecycle PENDING -> RUNNING -> SUCCESS | FAILED.
LifecycleStep(a, b) ==
  \/ a = b
  \/ a = "NONE" /\ b = PENDING
  \/ a = PENDING /\ b = RUNNING
  \/ a = RUNNING /\ b \in {SUCCESS, FAILED}

\* C5: every change of a job row's status, by the gateway or by a worker, is
\* one forward step of PENDING, RUNNING, SUCCESS | FAILED: none is skipped,
\* none goes back.
C5_MonotonicStatus ==
  [][\A j \in Jobs : LifecycleStep(row[j].status, row'[j].status)]_vars

\* C6: once a job row holds SUCCESS or FAILED, no step changes its status.
C6_TerminalIsFinal ==
  [][\A j \in Jobs :
       row[j].status \in {SUCCESS, FAILED} => row'[j].status = row[j].status]_vars

\* C7: every message whose processing a worker has finished has had exactly
\* one xack call issued for it, whatever the execution, the status updates
\* and the publish did, and it has left the pending entries list unless that
\* one xack call itself failed; no message ever has a second xack call, and a
\* message is only ever held by the consumer it was delivered to.
C7_AckExactlyOnce ==
  /\ \A m \in Jobs : Len(acks[m]) <= 1
  /\ \A m \in processed : Len(acks[m]) = 1 /\ (m \in pel <=> acks[m][1] # "ok")
  /\ \A w \in Workers : \A i \in 1..Len(batch[w]) : owner[batch[w][i]] = w

\* C7 witness: an execution failed, its publish step failed as well, and the
\* message was still acknowledged, once.
C7_Witness ==
  \E m \in processed :
    /\ row[m].status = FAILED /\ row[m].result = "err"
    /\ published[m] = 0
    /\ acks[m] = <<"ok">>
    /\ m \notin pel

\* C8: a message that is pending for a worker that died is delivered again
\* and its processing is completed.
C8_RedeliveredAndProcessed ==
  \A m \in Jobs :
    (m \in pel /\ owner[m] # NoWorker /\ wpc[owner[m]] = "crashed") ~> (m \in processed)

\* C9: after a synchronous invocation has timed out without any worker having
\* claimed the job's message, the job row is still PENDING.
C9_TimeoutLeavesPending ==
  \A j \in Jobs :
    (ret[j].outcome = "timeout" /\ owner[j] = NoWorker) => row[j].status = PENDING

\* C10: the job a caller gets back when its wait expired never has the status
\* of a job a caller gets back when the execution failed.
C10_TimeoutDistinctFromFailure ==
  \A j, k \in Jobs :
    (/\ ret[j].outcome = "timeout"
     /\ ret[k].outcome = "result" /\ ret[k].from = k /\ published[k] > 0
     /\ ret[k].status = FAILED)
    => ret[j].status # ret[k].status

\* The worker that holds the message of job j, after its executor succeeded
\* and its write of the terminal status went through.
HeldAfterSuccess(w, j) ==
  /\ wpc[w] \in {"publish", "ack"}
  /\ Head(batch[w]) = j
  /\ wres[w] = ExecSuccess
  /\ wlog[w][2] = "term_ok"

\* C11: a timeout of invoke_sync leaves the job's log entry in place and
\* unacknowledged; when a worker claims the entry after the timeout and
\* executes it successfully, the job row is left at SUCCESS, and the callback
\* it publishes resolves no handle and makes no call return a result.
C11_LateWorkerCompletes ==
  \A j \in Jobs :
    /\ (TimedOut(j) /\ InStream(j) /\ owner[j] = NoWorker) =>
          (acks[j] = <<>> /\ j \notin processed)
    /\ j \in lateClaim =>
          /\ \A w \in Workers : HeldAfterSuccess(w, j) => row[j].status = SUCCESS
          /\ waiters[j].st \in {"cancelled", "absent"}
          /\ ret[j].outcome # "result"

\* C12: when the write of the invocation message fails during invoke_sync,
\* by an exception or by a return value saying that nothing was written, the
\* handle is removed and the failure is reported: the caller never waits for
\* a job whose message is not in the log, and a call that ends with nothing
\* written ends as an enqueue failure (or was cancelled), not as a timeout.
C12_EnqueueFailureReported ==
  \A j \in Jobs :
    kind[j] = "sync" =>
      /\ gpc[j] \in {"waiting", "timedout"} => InStream(j)
      /\ ret[j].outcome = "enqueue_error" => waiters[j].st = "absent"
      /\ (gpc[j] = "returned" /\ ~InStream(j)) =>
            ret[j].outcome \in {"enqueue_error", "cancelled"}

\* C13: the keys of the waiters map are jobs whose invoke_sync call is in
\* progress; once the call is over, by result, timeout, enqueue failure or
\* cancellation of the request, the map has no entry for the job.
C13_NoHandleLeak ==
  \A j \in Jobs :
    /\ waiters[j].st # "absent" =>
          (kind[j] = "sync" /\ gpc[j] \in {"registered", "waiting", "timedout"})
    /\ gpc[j] = "returned" => waiters[j].st = "absent"

\* C13 witness: a request was cancelled while it waited, its handle is gone,
\* and the callback that came afterwards found no handle.
C13_Witness ==
  \E j \in Jobs :
    /\ ret[j].outcome = "cancelled"
    /\ waiters[j].st = "absent"
    /\ published[j] > 0
    /\ j \in ignored

\* C14: when a synchronous invocation returns because its handle was
\* resolved, the job row it commits holds SUCCESS exactly when the resolved
\* status is "success" and FAILED otherwise, with a result that is not null,
\* and no later step changes that row.
C14_PersistedMatchesResolved ==
  [][\A j \in Jobs :
       /\ (waiters[j].st = "done" /\ ret'[j].outcome = "result") =>
             /\ row'[j].status = SUCCESS <=> waiters[j].status = ExecSuccess
             /\ row'[j].status = FAILED <=> waiters[j].status # ExecSuccess
             /\ row'[j].result # "null"
       /\ ret[j].outcome = "result" => row'[j] = row[j]]_vars

\* C14 witness: a handle was resolved with a failed execution, the call
\* returned FAILED with the error, and the worker has finished the message.
C14_Witness ==
  \E j \in Jobs :
    /\ ret[j].outcome = "result" /\ ret[j].status = FAILED
    /\ row[j].status = FAILED /\ row[j].result = "err_json"
    /\ j \in processed

\* C15: an asynchronous invocation whose message was written to the log
\* returns to its caller a job with status PENDING and a null result,
\* whatever the workers have done by the time the response is built.
C15_AsyncReturnsPending ==
  \A j \in Jobs :
    (kind[j] = "async" /\ ret[j].outcome = "accepted" /\ InStream(j)) =>
      (ret[j].status = PENDING /\ ret[j].result = "null")

\* C16: for an asynchronous invocation whose message was written to the log,
\* while a worker keeps running, the job row eventually holds SUCCESS or
\* FAILED and holds a terminal status from then on (what a later read by id
\* returns).
C16_AsyncEventuallyTerminal ==
  \A j \in Jobs :
    (kind[j] = "async" /\ InStream(j)) ~> [](row[j].status \in {SUCCESS, FAILED})

\* C17: when the execution of a claimed message fails, and no database or
\* transport operation fails, the worker sets the job row to FAILED with the
\* error as its result, then publishes a callback with status "failed" for
\* that job id, then acknowledges the message.
C17_FailedExecutionReported ==
  [][\A w \in Workers :
       /\ (wpc[w] = "exec" /\ wpc'[w] = "publish" /\ wres'[w] = ExecFailed
            /\ faults' = faults) =>
             row'[Head(batch[w])] = [status |-> FAILED, result |-> "err"]
       /\ (wpc[w] = "publish" /\ wpc'[w] \notin {"publish", "crashed"}
            /\ wres[w] = ExecFailed /\ faults' = faults) =>
             /\ wpc'[w] = "ack"
             /\ published'[Head(batch[w])] = published[Head(batch[w])] + 1
             /\ lpc = "subscribed" =>
                   inbox' = Append(inbox, [job_id |-> Head(batch[w]), status |-> ExecFailed,
                                           result |-> "err_json"])
       /\ (wpc[w] = "ack" /\ wpc'[w] \notin {"ack", "crashed"}) =>
             Len(acks'[Head(batch[w])]) = Len(acks[Head(batch[w])]) + 1]_vars

C19_ExactlyOneWorkerOnce ==
  [][\A m \in Jobs :
       /\ owner[m] # NoWorker => owner'[m] = owner[m]
       /\ Cardinality({w \in Workers :
                         \E i \in 1..Len(batch'[w]) : batch'[w][i] = m}) <= 1
       /\ row[m].status \in {SUCCESS, FAILED} => row'[m].status \in {SUCCESS, FAILED}]_vars

\* The value the executor produces for a successful execution.
ExecutorOutput == "out"

\* json.loads: one level of JSON encoding is removed.
json_loads(s) ==
  CASE s = "out_json" -> "out"
    [] s = "out_json_json" -> "out_json"
    [] s = "err_json" -> "err"
    [] s = "null_json" -> "null"
    [] OTHER -> "JSONDecodeError"

\* C20: for a synchronous invocation that succeeds, the result returned to
\* the caller and the result in the job row, decoded once, is the value the
\* executor produced, and the row's result after the gateway's write is the
\* result the worker stored.
C20_ResultRoundTrip ==
  \A j \in Jobs :
    (ret[j].outcome = "result" /\ ret[j].status = SUCCESS) =>
      /\ json_loads(ret[j].result) = ExecutorOutput
      /\ json_loads(row[j].result) = ExecutorOutput
      /\ row[j].result = WorkerJobResult(ExecSuccess)

\* C21: execute_function for a function id that does not exist creates no job
\* row (no job id is used up), writes nothing to the log, registers no handle,
\* and ends with the not-found error for its caller.
C21_NotFoundCreatesNothing ==
  [][notFound' # notFound =>
       /\ notFound' = notFound + 1
       /\ row' = row /\ nextJob' = nextJob
       /\ stream' = stream
       /\ waiters' = waiters]_vars

\* C21 witness: after a request that created job 1, a request for a missing
\* function was rejected and there is no second job.
C21_Witness ==
  /\ notFound = 1
  /\ nextJob = 2
  /\ row[1].status # "NONE"
  /\ \A j \in Jobs \ {1} : row[j] = NoRow /\ waiters[j] = NoWaiter /\ ~InStream(j)

\* C22: when an invocation message is written to the log, the job row of the
\* id it carries is in the table with status PENDING; a message that has been
\* delivered to a worker has a job row.
C22_RowBeforeMessage ==
  [][\A j \in Jobs :
       /\ (~InStream(j) /\ InStream(j)') => row[j] = [status |-> PENDING, result |-> "null"]
       /\ owner'[j] # NoWorker => row'[j].status # "NONE"]_vars

\* C22 witness: a worker has claimed a message and marked its job RUNNING.
C22_Witness ==
  \E j \in Jobs : InStream(j) /\ owner[j] # NoWorker /\ row[j].status = RUNNING

\* C23: at most one callback is published for each job, and the processing
\* of one claimed message publishes at most one.
C23_AtMostOneNotification ==
  /\ \A j \in Jobs : published[j] <= 1
  /\ \A w \in Workers :
       Cardinality({i \in 1..Len(wlog[w]) : wlog[w][i] = "pub_ok"}) <= 1

\* C23 witness: an execution failed, its one callback was published, and the
\* processing of the message is over.
C23_Witness ==
  \E j \in processed :
    /\ kind[j] = "async"
    /\ published[j] = 1
    /\ row[j] = [status |-> FAILED, result |-> "err"]

\* C24: a notification for a job whose handle is already resolved or
\* cancelled changes nothing: set_result is never called on such a future
\* (nothing is raised), the value the handle holds is not replaced, and the
\* call returns the value of the first resolution.
C24_SecondNotificationNoOp ==
  [][\A j \in Jobs :
       /\ waiters'[j].st # "invalid_state"
       /\ waiters[j].st \in {"done", "cancelled"} =>
             (waiters'[j] = waiters[j] \/ waiters'[j] = NoWaiter)
       /\ (waiters[j].st = "done" /\ ret'[j].outcome = "result") =>
             /\ ret'[j].from = waiters[j].job_id
             /\ ret'[j].status = (IF waiters[j].status = ExecSuccess THEN SUCCESS ELSE FAILED)]_vars

\* C24 witness: the handle of a job is resolved and a further notification
\* for the same job has been read and dropped.
C24_Witness ==
  \E j \in Jobs :
    /\ waiters[j].st = "done"
    /\ j \in ignored
    /\ published[j] = 1

\* The listener reads the first message of its subscription.
ReceiveStep == lpc = "subscribed" /\ inbox # <<>> /\ inbox' = Tail(inbox) /\ lretries' = lretries

\* C25: a message that cannot be decoded leaves the waiters map unchanged and
\* the listener subscribed, and a valid notification read by the subscribed
\* listener resolves the pending handle of its job.
C25_BadMessageSkipped ==
  [][ReceiveStep =>
       IF Decodable(Head(inbox))
       THEN waiters[Head(inbox).job_id].st = "pending" =>
              waiters'[Head(inbox).job_id] =
                [st |-> "done", job_id |-> Head(inbox).job_id,
                 status |-> Head(inbox).status, result |-> Head(inbox).result]
       ELSE waiters' = waiters /\ lpc' = "subscribed"]_vars

\* C25 witness: an undecodable message was dropped, the listener is still
\* subscribed, and the next message is a valid notification for a caller that
\* is waiting.
C25_Witness ==
  /\ 0 \in ignored
  /\ lpc = "subscribed"
  /\ \E j \in Jobs : InInbox(j) /\ waiters[j].st = "pending" /\ gpc[j] = "waiting"

\* C26: after a failure to open the subscription and after an error while
\* receiving, the listener retries: whenever it is not subscribed it is
\* eventually subscribed again, and no transport error takes it out of its
\* loop (it is always either connecting or subscribed).
C26_ListenerResubscribes ==
  /\ [](lpc \in {"connecting", "subscribed"})
  /\ (lpc # "subscribed") ~> (lpc = "subscribed")

\* C26 witness: the listener is subscribed after a transport error.
C26_Witness == lretries > 0 /\ lpc = "subscribed"

\* C27: a notification read for a job id that has no registered handle (an
\* asynchronous invocation, or a synchronous one whose wait is over) changes
\* neither the waiters map nor any job row.
C27_NoHandleNoChange ==
  [][(ReceiveStep /\ Decodable(Head(inbox)) /\ waiters[Head(inbox).job_id].st = "absent") =>
       (waiters' = waiters /\ row' = row)]_vars

\* C27 witness: the notification of an asynchronous job was read and dropped,
\* and the row of the job is as the worker wrote it.
C27_Witness ==
  \E j \in Jobs :
    /\ kind[j] = "async"
    /\ j \in ignored
    /\ waiters[j] = NoWaiter
    /\ row[j].status = SUCCESS

\* C28: every invoke_sync call eventually returns to its caller, whether or
\* not a worker runs and a notification for its job is published.
C28_InvokeSyncReturns ==
  \A j \in Jobs :
    (kind[j] = "sync" /\ gpc[j] # "returned") ~> (gpc[j] = "returned")

\* C28 witness: a synchronous call has returned by timeout while no worker
\* had claimed its message and nothing had been published for it.
C28_Witness ==
  \E j \in Jobs :
    /\ kind[j] = "sync"
    /\ gpc[j] = "returned"
    /\ ret[j].outcome = "timeout"
    /\ InStream(j)
    /\ owner[j] = NoWorker
    /\ published[j] = 0

\* C29: a worker whose read, job-store update, publish or acknowledge fails
\* keeps looping: as long as it is not killed it is always at some step of
\* the consume loop and it always comes back to the blocking read.
C29_WorkerKeepsLooping ==
  \A w \in Workers :
    /\ [](wpc[w] \in {"read", "got", "exec", "publish", "ack", "crashed"})
    /\ (wpc[w] \notin {"read", "crashed"}) ~> (wpc[w] \in {"read", "crashed"})

\* C29 witness: a worker is back at its read after the acknowledge of the
\* message it processed raised.
C29_Witness ==
  \E w \in Workers, j \in Jobs :
    /\ wpc[w] = "read"
    /\ owner[j] = w
    /\ acks[j] # <<>>
    /\ acks[j][Len(acks[j])] = "raise"

\* C30: a job row whose status is PENDING has a null result, and every write
\* that sets a result also sets a status other than PENDING.
C30_PendingHasNoResult ==
  [][\A j \in Jobs :
       /\ row'[j].status = PENDING => row'[j].result = "null"
       /\ row'[j].result # row[j].result => row'[j].status \notin {"NONE", PENDING}]_vars

\* C30 witness: one job is PENDING with no result while another has a stored
\* result and a status other than PENDING.
C30_Witness ==
  \E j, k \in Jobs :
    /\ row[j] = [status |-> PENDING, result |-> "null"]
    /\ row[k].status \notin {"NONE", PENDING}
    /\ row[k].result # "null"

\* C31: every construction of ExecutionClient returns the same instance and
\* neither replaces nor empties the waiters map: the object the listener runs
\* on and the object of every request handler are one object, and a handle a
\* request has registered is in the map the listener looks up.
C31_OneSharedClient ==
  [][/\ \A h \in Handlers :
          /\ href'[h] # None => (href'[h] = lref' /\ href'[h] = cls_instance')
          /\ hkey'[h] # 0 => hkey'[h] \in heap'[lref'].waiters
     /\ (lref # None => lref' = lref)
     /\ \A h \in Handlers :
          (hpc'[h] # hpc[h] /\ hpc'[h] \in {"new", "constructed"}) =>
             \A o \in Objects : heap[o].state = "ready" => heap'[o] = heap[o]]_vars

\* C31 witness: a handler constructs the client again while another
\* handler's handle is registered in the listener's map.
C31_Witness ==
  \E h, g \in Handlers :
    /\ hpc[h] = "constructed"
    /\ href[h] = lref
    /\ hpc[g] = "registered"
    /\ hkey[g] \in heap[lref].waiters
    /\ nextKey > 2

\* The rows the jobs table lists (Job rows that exist).
JobRows == {j \in Jobs : row[j].status # "NONE"}

C33_DeployNeverLeftDeploying ==
  [][\A f \in DeployFunctions :
       (dpc[f] = "called" /\ dpc'[f] = "returned") =>
          /\ fn_row'[f].status # DEPLOYING
          /\ dk8s[f] = "ok" =>
               (fn_row'[f].status = DEPLOYED /\ fn_row'[f].url # "null")
          /\ dk8s[f] # "ok" =>
               /\ fn_row'[f].status = DEPLOY_FAILED
               /\ fn_row'[f].error # "null"
               /\ dres'[f] = "DEPLOYMENT_FAILED"]_vars

\* C34: whenever a worker publishes a notification with status s for job j,
\* the job row of j already records the status s, also when the job-store
\* update has failed.
C34_StoreAheadOfNotification ==
  [][\A j \in Jobs :
       published'[j] > published[j] =>
          row[j].status = WorkerJobStatus(wres[owner[j]])]_vars

\* C35: every job the asynchronous path returns to its caller with status
\* PENDING has its invocation message in the log.
C35_PendingImpliesEnqueued ==
  \A j \in Jobs :
    (kind[j] = "async" /\ gpc[j] = "returned" /\ ret[j].status = PENDING) => InStream(j)

\* C36: every message of one claim is handed to _process_message before the
\* worker issues its next claim, even if processing or acknowledging an
\* earlier message of the batch raises.
C36_WholeBatchProcessed ==
  [][\A w \in Workers :
       (wpc[w] # "read" /\ wpc'[w] = "read") =>
          \A j \in Jobs : owner[j] = w => j \in processed']_vars

\* C37: a claimed message whose job_id cannot be parsed is acknowledged and
\* dropped: processing it changes no job row and publishes nothing, the xack
\* for it is issued, and once the xack has returned the worker goes on to the
\* next message.
C37_UnparsableAckedAndDropped ==
  [][\A w \in Workers :
       /\ (wpc[w] = "got" /\ Head(batch[w]) = BadJobId /\ wpc'[w] \notin {"got", "crashed"}) =>
             /\ wpc'[w] = "ack"
             /\ row' = row /\ published' = published /\ inbox' = inbox
       /\ ~(batch[w] # <<>> /\ Head(batch[w]) = BadJobId /\ wpc'[w] \in {"exec", "publish"})
       /\ (wpc[w] = "ack" /\ Head(batch[w]) = BadJobId /\ wpc'[w] \notin {"ack", "crashed"}) =>
             /\ Len(acks'[BadJobId]) = Len(acks[BadJobId]) + 1
             /\ row' = row /\ published' = published /\ inbox' = inbox
             /\ acks'[BadJobId][Len(acks'[BadJobId])] = "ok" => BadJobId \notin pel'
             /\ acks'[BadJobId][Len(acks'[BadJobId])] # "raise" =>
                  /\ batch'[w] = Tail(batch[w])
                  /\ wpc'[w] = (IF Tail(batch[w]) # <<>> THEN "got" ELSE "read")]_vars

\* C37 witness: the unparsable message was acknowledged and dropped, and the
\* worker that had claimed it together with the message of job 1 has gone on
\* to execute job 1.
C37_Witness ==
  \E w \in Workers :
    /\ acks[BadJobId] = <<"ok">>
    /\ BadJobId \in processed
    /\ BadJobId \notin pel
    /\ stream = <<BadJobId, 1>>
    /\ owner[1] = w
    /\ delivered = 2
    /\ wpc[w] = "publish"
    /\ Head(batch[w]) = 1

\* A function id the gateway accepts: the id of a row of the functions table.
AcceptedFunctionId(f) == f.t = "uuid"

\* C38: an invocation message written for a job is read by the worker with
\* the same job_id, function_id and payload, for every job id, function id and
\* payload the gateway accepts, so that every accepted invocation reaches the
\* executor.
C38_MessageRoundTrip ==
  AcceptedFunctionId(min.function_id) =>
    /\ mpc \notin {"rejected", "failed"}
    /\ mpc = "executor" => mval = min
====
